---- MODULE Spec2Model ----
(***************************************************************************)
(* TResult<T, E> of Public/ResultType/Result.h, instantiated as the tests  *)
(* instantiate it: TResult<int32, FString>.                                *)
(*                                                                         *)
(* T = int32 is a trivial type: a default-initialised int32 member holds   *)
(* an indeterminate value (any int32), T() is 0.  E = FString is a class   *)
(* type: a default-constructed FString member is the empty string.         *)
(* An FString is modelled as a sequence of characters.                     *)
(***************************************************************************)
EXTENDS Integers, Sequences, FiniteSets, TLC

\* ---------------------------------------------------------------- bounds
\* int32 payloads sampled: 0, 5, ..., 5*MaxK
MaxK == 1
\* FString payloads are the strings of at most MaxLen characters
MaxLen == 1

RECURSIVE Str(_)
Str(n) == IF n = 0 THEN <<>> ELSE Append(Str(n - 1), "a")

TVal == {5 * k : k \in 0..MaxK}
EVal == {Str(n) : n \in 0..MaxLen}
\* the client program's two TResult<int32, FString> variables: a method's
\* receiver and its TResult argument
Slots == {"x", "y"}

\* T() for int32 (value-initialisation) and E() for FString
DefaultT == 0
DefaultE == <<>>

\* ------------------------------------------- ResultHelpers::FOkOrErrValue
\* FOkOrErrValue() = default: OKValue is left indeterminate (Junk), ERRValue
\* is default-constructed.
FOkOrErrValue(Junk) == [OKValue |-> Junk, ERRValue |-> DefaultE]

GetOkValue(S) == S.OKValue
GetErrValue(S) == S.ERRValue
SetOkValue(S, Value) == [S EXCEPT !.OKValue = Value]
SetErrValue(S, Err) == [S EXCEPT !.ERRValue = Err]
ResetOk(S) == [S EXCEPT !.OKValue = DefaultT]
ResetErr(S) == [S EXCEPT !.ERRValue = DefaultE]

\* The slots that hold a constructed payload object: the holder declares
\* T OKValue; E ERRValue; as members, so each lives as long as the holder.
LiveSlots(S) == DOMAIN S

FOkOrErrValueOk(Value, Junk) == SetOkValue(FOkOrErrValue(Junk), Value)
FOkOrErrValueErr(Error, Junk) == SetErrValue(FOkOrErrValue(Junk), Error)

\* ------------------------------------------------- TResult: construction
\* TResult(OkTag, Value)
TResultOk(Value, Junk) ==
    [bIsOk |-> TRUE, OkOrErrValue |-> FOkOrErrValueOk(Value, Junk)]

\* (a variant of the Err constructor that initialises bIsOk(true))
TResultErrAsOk(Error, Junk) ==
    [bIsOk |-> TRUE, OkOrErrValue |-> FOkOrErrValueErr(Error, Junk)]

\* TResult(ErrTag, Error)
TResultErr(Error, Junk) ==
    [bIsOk |-> FALSE, OkOrErrValue |-> FOkOrErrValueErr(Error, Junk)]

\* the slot the discriminant names
NamedSlot(R) == IF R.bIsOk THEN "OKValue" ELSE "ERRValue"

\* The macros OK_VALUE / ERR_VALUE
OK_VALUE(R) == GetOkValue(R.OkOrErrValue)
ERR_VALUE(R) == GetErrValue(R.OkOrErrValue)

\* (a variant of the copy constructor that copies the value slot only)
CopyCtorOkOnly(Other, Junk) ==
    [This |-> [bIsOk |-> Other.bIsOk,
               OkOrErrValue |->
                   SetOkValue(FOkOrErrValue(Junk), GetOkValue(Other.OkOrErrValue))],
     Other |-> Other]

\* TResult(const TResult& Other): the new object and Other afterwards
CopyCtor(Other, Junk) ==
    [This |-> [bIsOk |-> Other.bIsOk,
               OkOrErrValue |->
                   IF Other.bIsOk
                   THEN SetOkValue(FOkOrErrValue(Junk), GetOkValue(Other.OkOrErrValue))
                   ELSE SetErrValue(FOkOrErrValue(Junk), GetErrValue(Other.OkOrErrValue))],
     Other |-> Other]

\* (a variant of the move constructor that resets Other before reading it)
MoveCtorResetFirst(Other, Junk) ==
    LET Emptied == [Other EXCEPT !.OkOrErrValue =
                       IF Other.bIsOk THEN ResetOk(@) ELSE ResetErr(@)] IN
    [This |-> [bIsOk |-> Emptied.bIsOk,
               OkOrErrValue |->
                   IF Emptied.bIsOk
                   THEN SetOkValue(FOkOrErrValue(Junk), GetOkValue(Emptied.OkOrErrValue))
                   ELSE SetErrValue(FOkOrErrValue(Junk), GetErrValue(Emptied.OkOrErrValue))],
     Other |-> Emptied]

\* TResult(TResult&& Other): the new object and Other afterwards
MoveCtor(Other, Junk) ==
    [This |-> [bIsOk |-> Other.bIsOk,
               OkOrErrValue |->
                   IF Other.bIsOk
                   THEN SetOkValue(FOkOrErrValue(Junk), GetOkValue(Other.OkOrErrValue))
                   ELSE SetErrValue(FOkOrErrValue(Junk), GetErrValue(Other.OkOrErrValue))],
     Other |-> [Other EXCEPT !.OkOrErrValue =
                   IF Other.bIsOk THEN ResetOk(@) ELSE ResetErr(@)]]

\* operator=(const TResult& Other); Same is (this == &Other)
CopyAssign(This, Other, Same, Junk) ==
    IF Same THEN [This |-> This, Other |-> Other]
    ELSE CopyCtor(Other, Junk)

\* operator=(TResult&& Other); Same is (this == &Other)
MoveAssign(This, Other, Same, Junk) ==
    IF Same THEN [This |-> This, Other |-> Other]
    ELSE MoveCtor(Other, Junk)

\* ------------------------------------------------------ TResult: methods
\* Every method yields [val, calls, fatal]: the value returned, the callback
\* invocations made (argument, result) in order, and the message handed to
\* UE_LOG(LogTemp, Fatal, ...), <<>> when the fatal sink is not reached.
\* A Fatal log never returns: val is then Aborted.
Aborted == "aborted"
NoFatal == <<>>
NoCalls == <<>>

\* TOptional<X>() and TOptional<X>(Value)
TOptionalUnset == [bIsSet |-> FALSE]
TOptionalSet(Value) == [bIsSet |-> TRUE, Value |-> Value]

IsOk(R) == [val |-> R.bIsOk, calls |-> NoCalls, fatal |-> NoFatal]
IsErr(R) == [val |-> ~R.bIsOk, calls |-> NoCalls, fatal |-> NoFatal]

\* (a variant of IsOkAnd with the operands swapped: Pred(OK_VALUE) && bIsOk)
IsOkAndPredFirst(R, Pred) ==
    [val |-> Pred[OK_VALUE(R)] /\ R.bIsOk,
     calls |-> << <<OK_VALUE(R), Pred[OK_VALUE(R)]>> >>, fatal |-> NoFatal]

\* bIsOk && Pred(OK_VALUE)
IsOkAnd(R, Pred) ==
    IF R.bIsOk
    THEN [val |-> Pred[OK_VALUE(R)],
          calls |-> << <<OK_VALUE(R), Pred[OK_VALUE(R)]>> >>, fatal |-> NoFatal]
    ELSE [val |-> FALSE, calls |-> NoCalls, fatal |-> NoFatal]

\* !bIsOk && Pred(ERR_VALUE)
IsErrAnd(R, Pred) ==
    IF ~R.bIsOk
    THEN [val |-> Pred[ERR_VALUE(R)],
          calls |-> << <<ERR_VALUE(R), Pred[ERR_VALUE(R)]>> >>, fatal |-> NoFatal]
    ELSE [val |-> FALSE, calls |-> NoCalls, fatal |-> NoFatal]

Expect(R, Message) ==
    IF ~R.bIsOk
    THEN [val |-> Aborted, calls |-> NoCalls,
          fatal |-> <<"Result::Expect failed: %s", Message>>]
    ELSE [val |-> OK_VALUE(R), calls |-> NoCalls, fatal |-> NoFatal]

\* (a variant of Unwrap that hands out the value slot without the check)
UnwrapUnchecked(R) ==
    [val |-> OK_VALUE(R), calls |-> NoCalls, fatal |-> NoFatal]

Unwrap(R) ==
    IF ~R.bIsOk
    THEN [val |-> Aborted, calls |-> NoCalls,
          fatal |-> <<"Called Unwrap on an Err Result">>]
    ELSE [val |-> OK_VALUE(R), calls |-> NoCalls, fatal |-> NoFatal]

\* (a variant of UnwrapOr that hands out the value slot on either variant)
UnwrapOrIgnoresDefault(R, DefaultValue) ==
    [val |-> OK_VALUE(R), calls |-> NoCalls, fatal |-> NoFatal]

UnwrapOr(R, DefaultValue) ==
    [val |-> IF R.bIsOk THEN OK_VALUE(R) ELSE DefaultValue,
     calls |-> NoCalls, fatal |-> NoFatal]

UnwrapOrElse(R, Func) ==
    IF R.bIsOk
    THEN [val |-> OK_VALUE(R), calls |-> NoCalls, fatal |-> NoFatal]
    ELSE [val |-> Func[ERR_VALUE(R)],
          calls |-> << <<ERR_VALUE(R), Func[ERR_VALUE(R)]>> >>, fatal |-> NoFatal]

ExpectErr(R, Message) ==
    IF R.bIsOk
    THEN [val |-> Aborted, calls |-> NoCalls,
          fatal |-> <<"Result::ExpectErr failed: %s", Message>>]
    ELSE [val |-> ERR_VALUE(R), calls |-> NoCalls, fatal |-> NoFatal]

UnwrapErr(R) ==
    IF R.bIsOk
    THEN [val |-> Aborted, calls |-> NoCalls,
          fatal |-> <<"Called UnwrapErr on an Ok Result">>]
    ELSE [val |-> ERR_VALUE(R), calls |-> NoCalls, fatal |-> NoFatal]

\* (a variant of Map whose Err branch returns a default-constructed error)
MapLosesError(R, Func, Junk) ==
    IF R.bIsOk
    THEN [val |-> TResultOk(Func[OK_VALUE(R)], Junk),
          calls |-> << <<OK_VALUE(R), Func[OK_VALUE(R)]>> >>, fatal |-> NoFatal]
    ELSE [val |-> TResultErr(DefaultE, Junk), calls |-> NoCalls, fatal |-> NoFatal]

\* Junk is the indeterminate int32 of the returned object's unused OKValue
Map(R, Func, Junk) ==
    IF R.bIsOk
    THEN [val |-> TResultOk(Func[OK_VALUE(R)], Junk),
          calls |-> << <<OK_VALUE(R), Func[OK_VALUE(R)]>> >>, fatal |-> NoFatal]
    ELSE [val |-> TResultErr(ERR_VALUE(R), Junk), calls |-> NoCalls, fatal |-> NoFatal]

MapErr(R, Func, Junk) ==
    IF R.bIsOk
    THEN [val |-> TResultOk(OK_VALUE(R), Junk), calls |-> NoCalls, fatal |-> NoFatal]
    ELSE [val |-> TResultErr(Func[ERR_VALUE(R)], Junk),
          calls |-> << <<ERR_VALUE(R), Func[ERR_VALUE(R)]>> >>, fatal |-> NoFatal]

\* (a variant of AndThen without the bIsOk test)
AndThenAlways(R, Func, Junk) ==
    [val |-> Func[OK_VALUE(R)],
     calls |-> << <<OK_VALUE(R), Func[OK_VALUE(R)]>> >>, fatal |-> NoFatal]

AndThen(R, Func, Junk) ==
    IF R.bIsOk
    THEN [val |-> Func[OK_VALUE(R)],
          calls |-> << <<OK_VALUE(R), Func[OK_VALUE(R)]>> >>, fatal |-> NoFatal]
    ELSE [val |-> TResultErr(ERR_VALUE(R), Junk), calls |-> NoCalls, fatal |-> NoFatal]

OrElse(R, Func, Junk) ==
    IF R.bIsOk
    THEN [val |-> TResultOk(OK_VALUE(R), Junk), calls |-> NoCalls, fatal |-> NoFatal]
    ELSE [val |-> Func[ERR_VALUE(R)],
          calls |-> << <<ERR_VALUE(R), Func[ERR_VALUE(R)]>> >>, fatal |-> NoFatal]

\* TOptional<T> Ok() const
Ok(R) ==
    [val |-> IF R.bIsOk THEN TOptionalSet(OK_VALUE(R)) ELSE TOptionalUnset,
     calls |-> NoCalls, fatal |-> NoFatal]

\* (a variant of Err() with the condition inverted: bIsOk ? ... : TOptional<E>())
ErrInverted(R) ==
    [val |-> IF R.bIsOk THEN TOptionalSet(ERR_VALUE(R)) ELSE TOptionalUnset,
     calls |-> NoCalls, fatal |-> NoFatal]

\* TOptional<E> Err() const
Err(R) ==
    [val |-> IF ~R.bIsOk THEN TOptionalSet(ERR_VALUE(R)) ELSE TOptionalUnset,
     calls |-> NoCalls, fatal |-> NoFatal]

\* (a variant of And that returns Other whatever the receiver is)
AndNoShortCircuit(R, Other, Junk) ==
    [val |-> CopyCtor(Other, Junk).This, other |-> CopyCtor(Other, Junk).Other,
     calls |-> NoCalls, fatal |-> NoFatal]

\* bIsOk ? Other : TResult(Err, ERR_VALUE); the returned object is
\* copy-constructed from Other.  The field other is Other after the call.
And(R, Other, Junk) ==
    IF R.bIsOk
    THEN [val |-> CopyCtor(Other, Junk).This, other |-> CopyCtor(Other, Junk).Other,
          calls |-> NoCalls, fatal |-> NoFatal]
    ELSE [val |-> TResultErr(ERR_VALUE(R), Junk), other |-> Other,
          calls |-> NoCalls, fatal |-> NoFatal]

\* (a variant of Or that moves from Other: bIsOk ? ... : MoveTemp(Other))
OrMovesOther(R, Other, Junk) ==
    IF R.bIsOk
    THEN [val |-> TResultOk(OK_VALUE(R), Junk), other |-> Other,
          calls |-> NoCalls, fatal |-> NoFatal]
    ELSE [val |-> MoveCtor(Other, Junk).This, other |-> MoveCtor(Other, Junk).Other,
          calls |-> NoCalls, fatal |-> NoFatal]

\* bIsOk ? TResult(Ok, OK_VALUE) : Other
Or(R, Other, Junk) ==
    IF R.bIsOk
    THEN [val |-> TResultOk(OK_VALUE(R), Junk), other |-> Other,
          calls |-> NoCalls, fatal |-> NoFatal]
    ELSE [val |-> CopyCtor(Other, Junk).This, other |-> CopyCtor(Other, Junk).Other,
          calls |-> NoCalls, fatal |-> NoFatal]

\* Inspect returns *this: val is the object the returned reference denotes
Inspect(R, Func) ==
    IF R.bIsOk
    THEN [val |-> R, calls |-> << <<OK_VALUE(R), Func[OK_VALUE(R)]>> >>, fatal |-> NoFatal]
    ELSE [val |-> R, calls |-> NoCalls, fatal |-> NoFatal]

InspectErr(R, Func) ==
    IF ~R.bIsOk
    THEN [val |-> R, calls |-> << <<ERR_VALUE(R), Func[ERR_VALUE(R)]>> >>, fatal |-> NoFatal]
    ELSE [val |-> R, calls |-> NoCalls, fatal |-> NoFatal]

\* (a variant of operator== without the test of the discriminants)
EqualsNoGate(R, Other) ==
    [val |-> IF R.bIsOk THEN OK_VALUE(R) = OK_VALUE(Other)
             ELSE ERR_VALUE(R) = ERR_VALUE(Other),
     calls |-> NoCalls, fatal |-> NoFatal]

\* operator==
Equals(R, Other) ==
    [val |-> IF R.bIsOk # Other.bIsOk THEN FALSE
             ELSE IF R.bIsOk THEN OK_VALUE(R) = OK_VALUE(Other)
                  ELSE ERR_VALUE(R) = ERR_VALUE(Other),
     calls |-> NoCalls, fatal |-> NoFatal]

\* operator!=
NotEquals(R, Other) ==
    [val |-> ~Equals(R, Other).val, calls |-> NoCalls, fatal |-> NoFatal]

\* ---------------------------------------------------------------- inputs
\* Objects a tagged constructor can produce
Constructed ==
    {TResultOk(v, j) : v \in TVal, j \in TVal}
        \cup {TResultErr(e, j) : e \in EVal, j \in TVal}

\* Callbacks are functions of their argument.
\* (Val + c) wrapped into the sampled int32 values
ShiftT(x, c) == (x + c) % (5 * (MaxK + 1))
\* the string of (Err.Len() + c) characters, wrapped into EVal
ShiftE(e, c) == Str((Len(e) + c) % (MaxLen + 1))
\* [](int32 Val) { return Val > t; }  (t = -1: return true)
PredFuncs == {[x \in TVal |-> x > t] : t \in {-1} \cup TVal}
\* [](const FString& Err) { return Err.Len() > n; }
ErrPredFuncs == {[e \in EVal |-> Len(e) > n] : n \in -1..MaxLen}
\* [](int32 Val) { return Val + c; }
MapFuncs == {[x \in TVal |-> ShiftT(x, c)] : c \in TVal}
\* [](const FString& Err) { return Err + c characters; }
MapErrFuncs == {[e \in EVal |-> ShiftE(e, c)] : c \in 0..MaxLen}
\* [](const FString& Error) { return Error.Len() + c; } in the sampled int32
UnwrapOrElseFuncs ==
    {[e \in EVal |-> 5 * ((Len(e) + c) % (MaxK + 1))] : c \in 0..MaxK}
\* [](int32 Val) { return Val > t ? TResult(Ok, Val + c) : TResult(Err, e); }
\* (j is the indeterminate int32 of the objects the callback constructs)
AndThenFuncs ==
    [j \in TVal |->
        {[x \in TVal |-> IF x > t THEN TResultOk(ShiftT(x, c), j) ELSE TResultErr(e, j)] :
            t \in {-1} \cup TVal, c \in TVal, e \in EVal}]
\* [](const FString& Err) { return Err.Len() > n ? TResult(Ok, v) : TResult(Err, Err + c characters); }
OrElseFuncs ==
    [j \in TVal |->
        {[e \in EVal |-> IF Len(e) > n THEN TResultOk(v, j) ELSE TResultErr(ShiftE(e, c), j)] :
            n \in -1..MaxLen, v \in TVal, c \in 0..MaxLen}]
\* callbacks returning void
InspectFuncs == {[x \in TVal |-> "void"]}
InspectErrFuncs == {[e \in EVal |-> "void"]}
Messages == {"Should not fail"}

\* ----------------------------------------------------------------- state
\* obj:  the client's TResult<int32, FString> variables
\* last: the last operation: its name, the receiver's and the argument's
\*       slot, the receiver and the argument before it, the argument after
\*       it, and what it returned (kind says what val is), the callback
\*       invocations and the fatal message.  A returned TResult is a
\*       temporary that lives until the next operation.
VARIABLES obj, last

vars == <<obj, last>>

None == "none"
\* stands for the temporary last returned where a variable is expected
Temp == "temp"

Did(op, self, other, selfPre, otherPre, otherPost, kind, out) ==
    [op |-> op, self |-> self, other |-> other, selfPre |-> selfPre,
     otherPre |-> otherPre, otherPost |-> otherPost, kind |-> kind,
     val |-> out.val, calls |-> out.calls, fatal |-> out.fatal]

Returned(val) == [val |-> val, calls |-> NoCalls, fatal |-> NoFatal]

Init ==
    /\ obj \in [Slots -> Constructed]
    /\ last = Did("Init", None, None, None, None, None, "void", Returned(None))

\* A Fatal log ends the process: nothing runs after it.
Running == last.fatal = NoFatal

\* a method of the receiver obj[i] that takes no TResult argument
Method(op, i, kind, out) ==
    /\ Running
    /\ last' = Did(op, i, None, obj[i], None, None, kind, out)
    /\ UNCHANGED obj

\* ----------------------------------------------- construction, assignment
\* TResult<int32, FString> x(ResultHelpers::Ok, v);
NewOk(i, v) ==
    /\ Running
    /\ \E j \in TVal :
        /\ obj' = [obj EXCEPT ![i] = TResultOk(v, j)]
        /\ last' = Did("NewOk", i, None, None, None, None, "void", Returned(v))

\* TResult<int32, FString> x(ResultHelpers::Err, e);
NewErr(i, e) ==
    /\ Running
    /\ \E j \in TVal :
        /\ obj' = [obj EXCEPT ![i] = TResultErr(e, j)]
        /\ last' = Did("NewErr", i, None, None, None, None, "void", Returned(e))

\* the sources of a copy or a move: a variable, or the temporary
HasTemp == last.kind = "Result" /\ last.fatal = NoFatal
Sources == IF HasTemp THEN Slots \cup {Temp} ELSE Slots
Source(k) == IF k = Temp THEN last.val ELSE obj[k]

\* TResult<int32, FString> x(y);
CopyConstruct(i, k) ==
    /\ Running
    /\ k \in Sources /\ k # i
    /\ \E j \in TVal :
        LET c == CopyCtor(Source(k), j) IN
        /\ obj' = [n \in Slots |-> IF n = i THEN c.This
                                   ELSE IF n = k THEN c.Other ELSE obj[n]]
        /\ last' = Did("CopyConstruct", i, k, None, Source(k), c.Other,
                       "void", Returned(None))

\* TResult<int32, FString> x(MoveTemp(y));
MoveConstruct(i, k) ==
    /\ Running
    /\ k \in Sources /\ k # i
    /\ \E j \in TVal :
        LET c == MoveCtor(Source(k), j) IN
        /\ obj' = [n \in Slots |-> IF n = i THEN c.This
                                   ELSE IF n = k THEN c.Other ELSE obj[n]]
        /\ last' = Did("MoveConstruct", i, k, None, Source(k), c.Other,
                       "void", Returned(None))

\* x = y;
CopyAssignment(i, k) ==
    /\ Running
    /\ k \in Sources
    /\ \E j \in TVal :
        LET c == CopyAssign(obj[i], Source(k), k = i, j) IN
        /\ obj' = [n \in Slots |-> IF n = i THEN c.This
                                   ELSE IF n = k THEN c.Other ELSE obj[n]]
        /\ last' = Did("CopyAssign", i, k, obj[i], Source(k), c.Other,
                       "void", Returned(None))

\* x = MoveTemp(y);
MoveAssignment(i, k) ==
    /\ Running
    /\ k \in Sources
    /\ \E j \in TVal :
        LET c == MoveAssign(obj[i], Source(k), k = i, j) IN
        /\ obj' = [n \in Slots |-> IF n = i THEN c.This
                                   ELSE IF n = k THEN c.Other ELSE obj[n]]
        /\ last' = Did("MoveAssign", i, k, obj[i], Source(k), c.Other,
                       "void", Returned(None))

\* ------------------------------------------------------------ method calls
CallIsOk(i) == Method("IsOk", i, "bool", IsOk(obj[i]))
CallIsErr(i) == Method("IsErr", i, "bool", IsErr(obj[i]))
CallIsOkAnd(i) == \E f \in PredFuncs : Method("IsOkAnd", i, "bool", IsOkAnd(obj[i], f))
CallIsErrAnd(i) == \E f \in ErrPredFuncs : Method("IsErrAnd", i, "bool", IsErrAnd(obj[i], f))
CallExpect(i) == \E m \in Messages : Method("Expect", i, "T", Expect(obj[i], m))
CallUnwrap(i) == Method("Unwrap", i, "T", Unwrap(obj[i]))
\* x.UnwrapOr(d): the record keeps DefaultValue as the argument of the call
CallUnwrapOr(i) ==
    /\ Running
    /\ \E d \in TVal :
        /\ last' = Did("UnwrapOr", i, None, obj[i], d, d, "T", UnwrapOr(obj[i], d))
        /\ UNCHANGED obj
CallUnwrapOrElse(i) ==
    \E f \in UnwrapOrElseFuncs : Method("UnwrapOrElse", i, "T", UnwrapOrElse(obj[i], f))
CallExpectErr(i) == \E m \in Messages : Method("ExpectErr", i, "E", ExpectErr(obj[i], m))
CallUnwrapErr(i) == Method("UnwrapErr", i, "E", UnwrapErr(obj[i]))
CallMap(i) ==
    \E f \in MapFuncs, j \in TVal : Method("Map", i, "Result", Map(obj[i], f, j))
CallMapErr(i) ==
    \E f \in MapErrFuncs, j \in TVal : Method("MapErr", i, "Result", MapErr(obj[i], f, j))
CallAndThen(i) ==
    \E j \in TVal : \E f \in AndThenFuncs[j] : Method("AndThen", i, "Result", AndThen(obj[i], f, j))
CallOrElse(i) ==
    \E j \in TVal : \E f \in OrElseFuncs[j] : Method("OrElse", i, "Result", OrElse(obj[i], f, j))
CallOk(i) == Method("Ok", i, "OptT", Ok(obj[i]))
CallErr(i) == Method("Err", i, "OptE", Err(obj[i]))

\* x.And(y) and x.Or(y): y is a variable (possibly x itself)
CallAnd(i, k) ==
    /\ Running
    /\ \E j \in TVal :
        LET out == And(obj[i], obj[k], j) IN
        /\ obj' = [obj EXCEPT ![k] = out.other]
        /\ last' = Did("And", i, k, obj[i], obj[k], out.other, "Result", out)

CallOr(i, k) ==
    /\ Running
    /\ \E j \in TVal :
        LET out == Or(obj[i], obj[k], j) IN
        /\ obj' = [obj EXCEPT ![k] = out.other]
        /\ last' = Did("Or", i, k, obj[i], obj[k], out.other, "Result", out)

\* the returned reference denotes the receiver
CallInspect(i) ==
    /\ Running
    /\ \E f \in InspectFuncs :
        LET out == Inspect(obj[i], f) IN
        /\ obj' = [obj EXCEPT ![i] = out.val]
        /\ last' = Did("Inspect", i, None, obj[i], None, None, "Ref", out)

CallInspectErr(i) ==
    /\ Running
    /\ \E f \in InspectErrFuncs :
        LET out == InspectErr(obj[i], f) IN
        /\ obj' = [obj EXCEPT ![i] = out.val]
        /\ last' = Did("InspectErr", i, None, obj[i], None, None, "Ref", out)

CallEquals(i, k) ==
    /\ Running
    /\ last' = Did("Equals", i, k, obj[i], obj[k], obj[k], "bool", Equals(obj[i], obj[k]))
    /\ UNCHANGED obj

CallNotEquals(i, k) ==
    /\ Running
    /\ last' = Did("NotEquals", i, k, obj[i], obj[k], obj[k], "bool", NotEquals(obj[i], obj[k]))
    /\ UNCHANGED obj

\* [](int32 Val) { return Val * 2; }
Double == [x \in TVal |-> 2 * x]
\* "too small"
TooSmallMsg == Str(1)
\* x => x > 5 ? Ok(x) : Err("too small"), on the doubled values
TooSmall ==
    [j \in TVal |->
        [x \in {2 * v : v \in TVal} |->
            IF x > 5 THEN TResultOk(x, j) ELSE TResultErr(TooSmallMsg, j)]]

\* x.Map(Double).AndThen(TooSmall).Unwrap()
CallMapAndThenUnwrap(i) ==
    \E j \in TVal :
        LET m == Map(obj[i], Double, j)
            a == AndThen(m.val, TooSmall[j], j)
            u == Unwrap(a.val)
        IN  Method("MapAndThenUnwrap", i, "T",
                   [val |-> u.val, calls |-> m.calls \o a.calls, fatal |-> u.fatal])

Next ==
    \/ \E i \in Slots, v \in TVal : NewOk(i, v)
    \/ \E i \in Slots, e \in EVal : NewErr(i, e)
    \/ \E i \in Slots, k \in Slots \cup {Temp} : CopyConstruct(i, k)
    \/ \E i \in Slots, k \in Slots \cup {Temp} : MoveConstruct(i, k)
    \/ \E i \in Slots, k \in Slots \cup {Temp} : CopyAssignment(i, k)
    \/ \E i \in Slots, k \in Slots \cup {Temp} : MoveAssignment(i, k)
    \/ \E i \in Slots : CallIsOk(i)
    \/ \E i \in Slots : CallIsErr(i)
    \/ \E i \in Slots : CallIsOkAnd(i)
    \/ \E i \in Slots : CallIsErrAnd(i)
    \/ \E i \in Slots : CallExpect(i)
    \/ \E i \in Slots : CallUnwrap(i)
    \/ \E i \in Slots : CallUnwrapOr(i)
    \/ \E i \in Slots : CallUnwrapOrElse(i)
    \/ \E i \in Slots : CallExpectErr(i)
    \/ \E i \in Slots : CallUnwrapErr(i)
    \/ \E i \in Slots : CallMap(i)
    \/ \E i \in Slots : CallMapErr(i)
    \/ \E i \in Slots : CallAndThen(i)
    \/ \E i \in Slots : CallOrElse(i)
    \/ \E i \in Slots : CallOk(i)
    \/ \E i \in Slots : CallErr(i)
    \/ \E i \in Slots, k \in Slots : CallAnd(i, k)
    \/ \E i \in Slots, k \in Slots : CallOr(i, k)
    \/ \E i \in Slots : CallInspect(i)
    \/ \E i \in Slots : CallInspectErr(i)
    \/ \E i \in Slots, k \in Slots : CallEquals(i, k)
    \/ \E i \in Slots, k \in Slots : CallNotEquals(i, k)
    \/ \E i \in Slots : CallMapAndThenUnwrap(i)

Spec == Init /\ [][Next]_vars

\* ================================================================ claims
\* the receiver of the last operation, as it is now
Self == obj[last.self]
\* the messages of the fatal sink
FatalOnErr ==
    {<<"Called Unwrap on an Err Result">>} \cup
        {<<"Result::Expect failed: %s", m>> : m \in Messages}
FatalOnOk ==
    {<<"Called UnwrapErr on an Ok Result">>} \cup
        {<<"Result::ExpectErr failed: %s", m>> : m \in Messages}

\* C1: Unwrap/Expect reach the fatal sink iff the receiver is Err, UnwrapErr/
\* ExpectErr iff it is Ok; on the matching variant they return the stored
\* payload (Ok(v).Unwrap() = v, Err(e).UnwrapErr() = e) and the sink is not
\* reached; on the wrong variant the call ends in the sink and returns
\* nothing.  After IsOk()/IsErr() has answered, the matching accessor does not
\* reach the sink.
C1_FatalIffWrongVariant ==
    /\ last.op \in {"Unwrap", "Expect"} =>
        /\ (last.fatal # NoFatal) <=> ~last.selfPre.bIsOk
        /\ last.fatal # NoFatal => last.val = Aborted /\ last.fatal \in FatalOnErr
        /\ last.fatal = NoFatal => last.val = last.selfPre.OkOrErrValue.OKValue
    /\ last.op \in {"UnwrapErr", "ExpectErr"} =>
        /\ (last.fatal # NoFatal) <=> last.selfPre.bIsOk
        /\ last.fatal # NoFatal => last.val = Aborted /\ last.fatal \in FatalOnOk
        /\ last.fatal = NoFatal => last.val = last.selfPre.OkOrErrValue.ERRValue
    /\ last.op = "NewOk" =>
        /\ Unwrap(Self) = Returned(last.val)
        /\ \A m \in Messages : Expect(Self, m) = Returned(last.val)
    /\ last.op = "NewErr" =>
        /\ UnwrapErr(Self) = Returned(last.val)
        /\ \A m \in Messages : ExpectErr(Self, m) = Returned(last.val)
    /\ last.op \in {"IsOk", "IsErr"} =>
        LET ok == IF last.op = "IsOk" THEN last.val ELSE ~last.val IN
        /\ ok => Unwrap(Self).fatal = NoFatal
        /\ ok => \A m \in Messages : Expect(Self, m).fatal = NoFatal
        /\ ~ok => UnwrapErr(Self).fatal = NoFatal
        /\ ~ok => \A m \in Messages : ExpectErr(Self, m).fatal = NoFatal

\* an Unwrap on an Err whose unused value slot differs from T() ended in the sink
C1_Witness ==
    /\ last.op = "Unwrap"
    /\ ~last.selfPre.bIsOk
    /\ last.selfPre.OkOrErrValue.OKValue # DefaultT
    /\ last.fatal = <<"Called Unwrap on an Err Result">>

\* C2: of every reachable Result (a variable, or the temporary a combinator
\* returned) exactly one of IsOk() and IsErr() is true; a Result built with
\* the Ok tag answers IsOk, one built with the Err tag answers IsErr.
C2_ExactlyOneVariant ==
    /\ \A i \in Slots :
        /\ IsOk(obj[i]).val \in BOOLEAN
        /\ IsErr(obj[i]).val = ~IsOk(obj[i]).val
    /\ HasTemp =>
        /\ IsOk(last.val).val \in BOOLEAN
        /\ IsErr(last.val).val = ~IsOk(last.val).val
    /\ last.op = "NewOk" => IsOk(Self).val /\ ~IsErr(Self).val
    /\ last.op = "NewErr" => IsErr(Self).val /\ ~IsOk(Self).val
    /\ last.op = "IsOk" => last.val = last.selfPre.bIsOk
    /\ last.op = "IsErr" => last.val = ~last.selfPre.bIsOk

\* a variable was move-assigned an Err that a combinator returned
C2_Witness ==
    /\ last.op = "MoveAssign"
    /\ last.other = Temp
    /\ IsErr(Self).val
    /\ ~IsOk(Self).val

\* the payload the discriminant of R names, read from the storage
LivePayload(R) ==
    IF R.bIsOk THEN R.OkOrErrValue.OKValue ELSE R.OkOrErrValue.ERRValue
\* what R is: its discriminant and its live payload
View(R) == <<R.bIsOk, LivePayload(R)>>
\* the same, of the TResult an outcome returned
ViewOf(out) == [out EXCEPT !.val = View(out.val)]

\* C3: after a move-construction or a move-assignment from a source holding
\* Ok(v) (Err(e)) the destination answers IsOk and unwraps to v (answers
\* IsErr and unwraps to e), whatever it held before, and the source's
\* discriminant is what it was.
C3_MoveTransfersLiveVariant ==
    last.op \in {"MoveConstruct", "MoveAssign"} =>
        LET src == last.otherPre IN
        /\ IsOk(Self).val = src.bIsOk
        /\ IsErr(Self).val = ~src.bIsOk
        /\ src.bIsOk => Unwrap(Self) = Returned(src.OkOrErrValue.OKValue)
        /\ ~src.bIsOk => UnwrapErr(Self) = Returned(src.OkOrErrValue.ERRValue)
        /\ last.otherPost.bIsOk = src.bIsOk
        /\ last.other \in Slots => obj[last.other].bIsOk = src.bIsOk

\* an Ok(v), v # T(), was move-assigned to a variable that held an Err, from
\* another variable, which is left holding T()
C3_Witness ==
    /\ last.op = "MoveAssign"
    /\ last.other \in Slots /\ last.other # last.self
    /\ ~last.selfPre.bIsOk
    /\ last.otherPre.bIsOk
    /\ last.otherPre.OkOrErrValue.OKValue # DefaultT
    /\ Unwrap(Self) = Returned(last.otherPre.OkOrErrValue.OKValue)
    /\ Unwrap(obj[last.other]) = Returned(DefaultT)

\* everything the methods of R let a caller see.  A returned TResult is
\* seen in turn through its discriminant and live payload.
Observe(R) ==
    [IsOk |-> IsOk(R), IsErr |-> IsErr(R),
     IsOkAnd |-> [f \in PredFuncs |-> IsOkAnd(R, f)],
     IsErrAnd |-> [f \in ErrPredFuncs |-> IsErrAnd(R, f)],
     Expect |-> [m \in Messages |-> Expect(R, m)],
     Unwrap |-> Unwrap(R),
     UnwrapOr |-> [d \in TVal |-> UnwrapOr(R, d)],
     UnwrapOrElse |-> [f \in UnwrapOrElseFuncs |-> UnwrapOrElse(R, f)],
     ExpectErr |-> [m \in Messages |-> ExpectErr(R, m)],
     UnwrapErr |-> UnwrapErr(R),
     Map |-> [f \in MapFuncs |-> ViewOf(Map(R, f, DefaultT))],
     MapErr |-> [f \in MapErrFuncs |-> ViewOf(MapErr(R, f, DefaultT))],
     AndThen |-> [f \in AndThenFuncs[DefaultT] |-> ViewOf(AndThen(R, f, DefaultT))],
     OrElse |-> [f \in OrElseFuncs[DefaultT] |-> ViewOf(OrElse(R, f, DefaultT))],
     Ok |-> Ok(R), Err |-> Err(R),
     And |-> [o \in Constructed |-> View(And(R, o, DefaultT).val)],
     AndOf |-> [o \in Constructed |-> View(And(o, R, DefaultT).val)],
     Or |-> [o \in Constructed |-> View(Or(R, o, DefaultT).val)],
     OrOf |-> [o \in Constructed |-> View(Or(o, R, DefaultT).val)],
     Inspect |-> [f \in InspectFuncs |-> ViewOf(Inspect(R, f))],
     InspectErr |-> [f \in InspectErrFuncs |-> ViewOf(InspectErr(R, f))],
     Equals |-> [o \in Constructed |-> Equals(R, o)],
     EqualsOf |-> [o \in Constructed |-> Equals(o, R)],
     NotEquals |-> [o \in Constructed |-> NotEquals(R, o)]]

\* C4: after a copy-construction or a copy-assignment from s the destination
\* d has the discriminant and the live payload of s and d == s, whatever d
\* held before; s is unchanged; and no method of d tells it from s, so what
\* d held before cannot be seen.
C4_CopyDuplicatesLiveVariant ==
    last.op \in {"CopyConstruct", "CopyAssign"} =>
        LET src == last.otherPre IN
        /\ IsOk(Self).val = src.bIsOk
        /\ src.bIsOk => Unwrap(Self) = Returned(src.OkOrErrValue.OKValue)
        /\ ~src.bIsOk => UnwrapErr(Self) = Returned(src.OkOrErrValue.ERRValue)
        /\ Equals(Self, src).val /\ Equals(src, Self).val
        /\ last.otherPost = src
        /\ last.other \in Slots => obj[last.other] = src
        /\ Observe(Self) = Observe(src)

\* an Err(e) was copy-assigned to a variable that held Ok(v), v # T(); the
\* int32 v is still in the unused value slot of the destination, and the
\* unused value slot of the source holds something else
C4_Witness ==
    /\ last.op = "CopyAssign"
    /\ last.other \in Slots /\ last.other # last.self
    /\ last.selfPre.bIsOk
    /\ last.selfPre.OkOrErrValue.OKValue # DefaultT
    /\ ~last.otherPre.bIsOk
    /\ last.otherPre.OkOrErrValue.ERRValue # DefaultE
    /\ Self.OkOrErrValue.OKValue = last.selfPre.OkOrErrValue.OKValue
    /\ Self.OkOrErrValue.OKValue # last.otherPre.OkOrErrValue.OKValue
    /\ UnwrapErr(Self) = Returned(last.otherPre.OkOrErrValue.ERRValue)

\* C5: a.And(b) equals b when a is Ok and is Err(a's error) when a is Err;
\* a.Or(b) is Ok(a's value) when a is Ok and equals b when a is Err.  So
\* Err(e1).And(Err(e2)) carries e1, Err(e1).Or(Err(e2)) carries e2 and
\* Ok(v1).Or(Ok(v2)) carries v1.
C5_AndOrShortCircuit ==
    /\ last.op = "And" =>
        IF last.selfPre.bIsOk
        THEN /\ View(last.val) = View(last.otherPre)
             /\ Equals(last.val, last.otherPre).val
        ELSE /\ IsErr(last.val).val
             /\ UnwrapErr(last.val) = Returned(last.selfPre.OkOrErrValue.ERRValue)
    /\ last.op = "Or" =>
        IF last.selfPre.bIsOk
        THEN /\ IsOk(last.val).val
             /\ Unwrap(last.val) = Returned(last.selfPre.OkOrErrValue.OKValue)
        ELSE /\ View(last.val) = View(last.otherPre)
             /\ Equals(last.val, last.otherPre).val

\* Err(e1).Or(Err(e2)) with e1 # e2 returned an Err carrying e2
C5_Witness ==
    /\ last.op = "Or"
    /\ ~last.selfPre.bIsOk /\ ~last.otherPre.bIsOk
    /\ last.selfPre.OkOrErrValue.ERRValue # last.otherPre.OkOrErrValue.ERRValue
    /\ UnwrapErr(last.val) = Returned(last.otherPre.OkOrErrValue.ERRValue)

\* C6: Ok(v).AndThen(f) is f(v), Ok or Err as f returned it, and
\* Err(e).AndThen(f) is Err(e); Err(e).OrElse(g) is g(e) and Ok(v).OrElse(g)
\* is Ok(v).  Ok(5).Map(x*2).AndThen(x > 5 ? Ok(x) : Err) unwraps to 10.
C6_AndThenOrElseBind ==
    /\ last.op = "AndThen" =>
        IF last.selfPre.bIsOk
        THEN /\ Len(last.calls) = 1
             /\ last.calls[1][1] = last.selfPre.OkOrErrValue.OKValue
             /\ last.val = last.calls[1][2]
        ELSE /\ IsErr(last.val).val
             /\ UnwrapErr(last.val) = Returned(last.selfPre.OkOrErrValue.ERRValue)
    /\ last.op = "OrElse" =>
        IF ~last.selfPre.bIsOk
        THEN /\ Len(last.calls) = 1
             /\ last.calls[1][1] = last.selfPre.OkOrErrValue.ERRValue
             /\ last.val = last.calls[1][2]
        ELSE /\ IsOk(last.val).val
             /\ Unwrap(last.val) = Returned(last.selfPre.OkOrErrValue.OKValue)
    /\ (last.op = "MapAndThenUnwrap" /\ View(last.selfPre) = <<TRUE, 5>>) =>
        last.fatal = NoFatal /\ last.val = 10

\* an Ok(v).AndThen(f) returned the Err that f(v) is
C6_Witness ==
    /\ last.op = "AndThen"
    /\ last.selfPre.bIsOk
    /\ last.selfPre.OkOrErrValue.OKValue # DefaultT
    /\ Len(last.calls) = 1
    /\ IsErr(last.calls[1][2]).val
    /\ ERR_VALUE(last.calls[1][2]) # DefaultE
    /\ last.val = last.calls[1][2]

\* C7: Ok(v).Map(f) is Ok(f(v)) and Err(e).Map(f) is Err(e); Err(e).MapErr(g)
\* is Err(g(e)) and Ok(v).MapErr(g) is Ok(v).  The returned discriminant is
\* the receiver's.
C7_MapPreservesVariant ==
    /\ last.op \in {"Map", "MapErr"} => IsOk(last.val).val = last.selfPre.bIsOk
    /\ last.op = "Map" =>
        IF last.selfPre.bIsOk
        THEN /\ Len(last.calls) = 1
             /\ last.calls[1][1] = last.selfPre.OkOrErrValue.OKValue
             /\ Unwrap(last.val) = Returned(last.calls[1][2])
        ELSE UnwrapErr(last.val) = Returned(last.selfPre.OkOrErrValue.ERRValue)
    /\ last.op = "MapErr" =>
        IF ~last.selfPre.bIsOk
        THEN /\ Len(last.calls) = 1
             /\ last.calls[1][1] = last.selfPre.OkOrErrValue.ERRValue
             /\ UnwrapErr(last.val) = Returned(last.calls[1][2])
        ELSE Unwrap(last.val) = Returned(last.selfPre.OkOrErrValue.OKValue)

\* an Err(e).Map(f), e not empty, returned Err(e)
C7_Witness ==
    /\ last.op = "Map"
    /\ ~last.selfPre.bIsOk
    /\ last.selfPre.OkOrErrValue.ERRValue # DefaultE
    /\ UnwrapErr(last.val) = Returned(last.selfPre.OkOrErrValue.ERRValue)

OkSideCallbackOps == {"IsOkAnd", "Map", "AndThen", "Inspect"}
ErrSideCallbackOps == {"IsErrAnd", "MapErr", "OrElse", "InspectErr", "UnwrapOrElse"}

\* C8: the callback of IsOkAnd, Map, AndThen and Inspect runs once, on the
\* stored value, when the receiver is Ok and not at all when it is Err; the
\* callback of IsErrAnd, MapErr, OrElse, InspectErr and UnwrapOrElse runs
\* once, on the stored error, when the receiver is Err and not at all when
\* it is Ok.
C8_CallbackOnlyOnMatchingVariant ==
    /\ last.op \in OkSideCallbackOps =>
        IF last.selfPre.bIsOk
        THEN /\ Len(last.calls) = 1
             /\ last.calls[1][1] = last.selfPre.OkOrErrValue.OKValue
        ELSE last.calls = NoCalls
    /\ last.op \in ErrSideCallbackOps =>
        IF ~last.selfPre.bIsOk
        THEN /\ Len(last.calls) = 1
             /\ last.calls[1][1] = last.selfPre.OkOrErrValue.ERRValue
        ELSE last.calls = NoCalls

\* IsOkAnd on an Err whose unused value slot would satisfy the predicate
\* answered false without running the predicate
C8_Witness ==
    /\ last.op = "IsOkAnd"
    /\ ~last.selfPre.bIsOk
    /\ last.selfPre.OkOrErrValue.OKValue # DefaultT
    /\ last.calls = NoCalls
    /\ last.val = FALSE

\* the Results that exist: the variables and the temporary last returned
Reachable == {obj[i] : i \in Slots} \cup (IF HasTemp THEN {last.val} ELSE {})

\* C9: for all reachable Results a and b: a == a; a == b iff b == a; an Ok
\* never equals an Err; two Ok are equal iff their values are, two Err iff
\* their errors are, whatever the unused slots hold; a != b is the negation
\* of a == b.
C9_EqualityLaws ==
    /\ \A a \in Reachable, b \in Reachable :
        /\ Equals(a, a).val
        /\ Equals(a, b).val = Equals(b, a).val
        /\ a.bIsOk # b.bIsOk => ~Equals(a, b).val
        /\ (a.bIsOk /\ b.bIsOk) =>
            (Equals(a, b).val <=> a.OkOrErrValue.OKValue = b.OkOrErrValue.OKValue)
        /\ (~a.bIsOk /\ ~b.bIsOk) =>
            (Equals(a, b).val <=> a.OkOrErrValue.ERRValue = b.OkOrErrValue.ERRValue)
        /\ NotEquals(a, b).val = ~Equals(a, b).val
    /\ last.op = "Equals" =>
        last.val = (/\ last.selfPre.bIsOk = last.otherPre.bIsOk
                    /\ LivePayload(last.selfPre) = LivePayload(last.otherPre))
    /\ last.op = "NotEquals" =>
        last.val = ~(/\ last.selfPre.bIsOk = last.otherPre.bIsOk
                     /\ LivePayload(last.selfPre) = LivePayload(last.otherPre))

\* an Ok and an Err whose two slots hold the same int32 and the same FString
\* were compared and found unequal
C9_Witness ==
    /\ last.op = "Equals"
    /\ last.selfPre.bIsOk /\ ~last.otherPre.bIsOk
    /\ last.selfPre.OkOrErrValue = last.otherPre.OkOrErrValue
    /\ last.val = FALSE

ReadOnlyOps ==
    {"IsOk", "IsErr", "IsOkAnd", "IsErrAnd", "Unwrap", "Expect", "UnwrapErr",
     "ExpectErr", "UnwrapOr", "UnwrapOrElse", "Map", "MapErr", "AndThen",
     "OrElse", "And", "Or", "Ok", "Err", "Inspect", "InspectErr", "Equals",
     "NotEquals"}

\* C10: a query, an extraction on the matching variant or a combinator
\* leaves the receiver and the argument Result with the discriminant and the
\* live payload they had; Inspect and InspectErr return a Result with the
\* receiver's discriminant and payload, whether or not the callback ran.
C10_CallsLeaveOperandsUnchanged ==
    (last.op \in ReadOnlyOps /\ last.fatal = NoFatal) =>
        /\ View(Self) = View(last.selfPre)
        /\ last.other \in Slots =>
            /\ View(obj[last.other]) = View(last.otherPre)
            /\ View(last.otherPost) = View(last.otherPre)
        /\ last.op \in {"Inspect", "InspectErr"} =>
            View(last.val) = View(last.selfPre)

\* Err(e1).Or(y), y another variable holding Ok(v) with v # T(), returned
\* Ok(v) and y still holds Ok(v)
C10_Witness ==
    /\ last.op = "Or"
    /\ ~last.selfPre.bIsOk
    /\ last.other \in Slots /\ last.other # last.self
    /\ last.otherPre.bIsOk
    /\ last.otherPre.OkOrErrValue.OKValue # DefaultT
    /\ Unwrap(last.val) = Returned(last.otherPre.OkOrErrValue.OKValue)
    /\ Unwrap(obj[last.other]) = Returned(last.otherPre.OkOrErrValue.OKValue)

\* C11: UnwrapOr and UnwrapOrElse never reach the fatal sink:
\* Ok(v).UnwrapOr(d) = v, Err(e).UnwrapOr(d) = d, Ok(v).UnwrapOrElse(f) = v
\* and Err(e).UnwrapOrElse(f) = f(e), for every v, e, d and f.
C11_UnwrapOrTotal ==
    /\ last.op = "UnwrapOr" =>
        /\ last.fatal = NoFatal
        /\ last.val = IF last.selfPre.bIsOk
                      THEN last.selfPre.OkOrErrValue.OKValue
                      ELSE last.otherPre
    /\ last.op = "UnwrapOrElse" =>
        /\ last.fatal = NoFatal
        /\ IF last.selfPre.bIsOk
           THEN last.val = last.selfPre.OkOrErrValue.OKValue
           ELSE /\ Len(last.calls) = 1
                /\ last.calls[1][1] = last.selfPre.OkOrErrValue.ERRValue
                /\ last.val = last.calls[1][2]
    /\ last.op = "NewOk" =>
        /\ \A d \in TVal : UnwrapOr(Self, d) = Returned(last.val)
        /\ \A f \in UnwrapOrElseFuncs : UnwrapOrElse(Self, f) = Returned(last.val)
    /\ last.op = "NewErr" =>
        /\ \A d \in TVal : UnwrapOr(Self, d) = Returned(d)
        /\ \A f \in UnwrapOrElseFuncs :
            /\ UnwrapOrElse(Self, f).val = f[last.val]
            /\ UnwrapOrElse(Self, f).fatal = NoFatal
    /\ \A r \in Reachable :
        /\ \A d \in TVal : UnwrapOr(r, d).fatal = NoFatal
        /\ \A f \in UnwrapOrElseFuncs : UnwrapOrElse(r, f).fatal = NoFatal

\* UnwrapOr(d) on an Err returned d, which is not what the unused value slot
\* of the receiver holds
C11_Witness ==
    /\ last.op = "UnwrapOr"
    /\ ~last.selfPre.bIsOk
    /\ last.otherPre # last.selfPre.OkOrErrValue.OKValue
    /\ last.val = last.otherPre
    /\ last.fatal = NoFatal

\* C12: for every Result r, r.Ok() is set iff r.IsOk() and then holds r's
\* value, r.Err() is set iff r.IsErr() and then holds r's error; exactly one
\* of r.Ok() and r.Err() is set.
C12_OptionalAgreesWithDiscriminant ==
    /\ \A r \in Reachable :
        /\ Ok(r).val.bIsSet = IsOk(r).val
        /\ Err(r).val.bIsSet = IsErr(r).val
        /\ Ok(r).val.bIsSet # Err(r).val.bIsSet
        /\ Ok(r).val.bIsSet => Ok(r).val.Value = r.OkOrErrValue.OKValue
        /\ Err(r).val.bIsSet => Err(r).val.Value = r.OkOrErrValue.ERRValue
        /\ Ok(r).fatal = NoFatal /\ Err(r).fatal = NoFatal
    /\ last.op = "Ok" =>
        last.val = IF last.selfPre.bIsOk
                   THEN TOptionalSet(last.selfPre.OkOrErrValue.OKValue)
                   ELSE TOptionalUnset
    /\ last.op = "Err" =>
        last.val = IF ~last.selfPre.bIsOk
                   THEN TOptionalSet(last.selfPre.OkOrErrValue.ERRValue)
                   ELSE TOptionalUnset
    /\ last.op = "NewOk" =>
        Ok(Self).val = TOptionalSet(last.val) /\ Err(Self).val = TOptionalUnset
    /\ last.op = "NewErr" =>
        Err(Self).val = TOptionalSet(last.val) /\ Ok(Self).val = TOptionalUnset

\* Ok() on an Err whose unused value slot holds an int32 other than T()
\* returned an unset optional, and Err() of the same receiver is set
C12_Witness ==
    /\ last.op = "Ok"
    /\ ~last.selfPre.bIsOk
    /\ last.selfPre.OkOrErrValue.OKValue # DefaultT
    /\ last.val = TOptionalUnset
    /\ Err(Self).val = TOptionalSet(last.selfPre.OkOrErrValue.ERRValue)

\* C13: of every Result (after tagged construction, copy, move-from,
\* move-into and assignment) exactly one of the value slot and the error
\* slot is live, never both and never neither, and it is the slot the
\* discriminant names.
C13_ExactlyOneSlotLive ==
    \A r \in Reachable :
        /\ Cardinality(LiveSlots(r.OkOrErrValue)) = 1
        /\ LiveSlots(r.OkOrErrValue) = {NamedSlot(r)}

====
